---------------------------- MODULE Spec2Model ----------------------------
(***************************************************************************)
(* Model of scripts/archive-shows.ts: the show-archiving utility that      *)
(* moves past shows from `upcoming` to `past` in each site's shows.json.   *)
(*                                                                         *)
(* Time unit: one minute.  Date.getTime() is in milliseconds; every        *)
(* instant that occurs here is a whole minute, so a value t stands for     *)
(* t * 60000 ms and floor(ms / 86400000) = floor(t / 1440).                *)
(***************************************************************************)
EXTENDS Integers, Sequences, FiniteSets, TLC

(***************************************************************************)
(* Characters and date strings.  A string is a sequence of one-character   *)
(* strings, so that the format regex and the date parser work on the text. *)
(***************************************************************************)
UpperLetters ==
  <<"A","B","C","D","E","F","G","H","I","J","K","L","M",
    "N","O","P","Q","R","S","T","U","V","W","X","Y","Z">>

LowerLetters ==
  <<"a","b","c","d","e","f","g","h","i","j","k","l","m",
    "n","o","p","q","r","s","t","u","v","w","x","y","z">>

DigitChars == <<"0","1","2","3","4","5","6","7","8","9">>

Range(f) == { f[i] : i \in DOMAIN f }

Letters == Range(UpperLetters) \cup Range(LowerLetters)

Digits == Range(DigitChars)

IsLetter(c) == c \in Letters

IsDigit(c) == c \in Digits

IsSpace(c) == c = " "

DigitVal(c) == (CHOOSE i \in 1..10 : DigitChars[i] = c) - 1

ToLower(c) ==
  IF c \in Range(UpperLetters)
    THEN LowerLetters[CHOOSE i \in 1..26 : UpperLetters[i] = c]
    ELSE c

\* Value of the decimal digits s[a..b].
RECURSIVE NumVal(_, _, _)
NumVal(s, a, b) ==
  IF a > b THEN 0 ELSE NumVal(s, a, b - 1) * 10 + DigitVal(s[b])

\* Length of the run of characters satisfying the class at s[i], s[i+1], ...
RECURSIVE SpaceRun(_, _)
SpaceRun(s, i) ==
  IF i <= Len(s) /\ IsSpace(s[i]) THEN 1 + SpaceRun(s, i + 1) ELSE 0

RECURSIVE DigitRun(_, _)
DigitRun(s, i) ==
  IF i <= Len(s) /\ IsDigit(s[i]) THEN 1 + DigitRun(s, i + 1) ELSE 0

(***************************************************************************)
(* formatRegex = /^[A-Za-z]{3}\s+\d{1,2},\s+\d{4}$/ .  Each quantifier is  *)
(* followed by a character outside its class, so the greedy match is the   *)
(* only one.  The result gives the position of the day and of the year.    *)
(***************************************************************************)
FormatMatch(s) ==
  LET sp1  == SpaceRun(s, 4)
      dpos == 4 + sp1
      dlen == DigitRun(s, dpos)
      cpos == dpos + dlen
      sp2  == SpaceRun(s, cpos + 1)
      ypos == cpos + 1 + sp2
      ylen == DigitRun(s, ypos)
      ok   == /\ Len(s) >= 3
              /\ \A i \in 1..3 : IsLetter(s[i])
              /\ sp1 >= 1
              /\ dlen \in {1, 2}
              /\ cpos <= Len(s) /\ s[cpos] = ","
              /\ sp2 >= 1
              /\ ylen = 4
              /\ ypos + 4 = Len(s) + 1
  IN  [ok |-> ok, dpos |-> dpos, dlen |-> dlen, ypos |-> ypos]

MonthNames ==
  << <<"j","a","n">>, <<"f","e","b">>, <<"m","a","r">>, <<"a","p","r">>,
     <<"m","a","y">>, <<"j","u","n">>, <<"j","u","l">>, <<"a","u","g">>,
     <<"s","e","p">>, <<"o","c","t">>, <<"n","o","v">>, <<"d","e","c">> >>

\* Month number of a three-letter word (case-insensitive), 0 if it is none.
NamedMonth(s) ==
  LET w == << ToLower(s[1]), ToLower(s[2]), ToLower(s[3]) >>
  IN  IF \E m \in 1..12 : MonthNames[m] = w
        THEN CHOOSE m \in 1..12 : MonthNames[m] = w
        ELSE 0

IsDay(x) == x >= 1 /\ x <= 31

IsMonth(x) == x >= 1 /\ x <= 12

(***************************************************************************)
(* Calendar arithmetic of the Date object: day number since 1970-01-01.    *)
(***************************************************************************)
IsLeap(y) == (y % 4 = 0 /\ y % 100 # 0) \/ y % 400 = 0

DaysBeforeMonth == <<0, 31, 59, 90, 120, 151, 181, 212, 243, 273, 304, 334>>

\* Days from 1970-01-01 to January 1st of year y (y >= 1).
DaysToYear(y) ==
  LET p == y - 1
  IN  365 * (y - 1970) + (p \div 4 - 492) - (p \div 100 - 19) + (p \div 400 - 4)

\* MakeDay: day d of month m may exceed the month's length and rolls over.
MakeDay(y, m, d) ==
  DaysToYear(y) + DaysBeforeMonth[m]
    + (IF m > 2 /\ IsLeap(y) THEN 1 ELSE 0) + (d - 1)

\* getFullYear: the civil year of a day number (eras of 400 years that
\* start on March 1st).
YearOfDay(day) ==
  LET z == day + 719468
      era == z \div 146097
      doe == z - era * 146097
      yoe == (doe - doe \div 1460 + doe \div 36524 - doe \div 146096) \div 365
      doy == doe - (365 * yoe + yoe \div 4 - yoe \div 100)
  IN  yoe + era * 400 + (IF doy >= 306 THEN 1 ELSE 0)

(***************************************************************************)
(* new Date(dateString) for a string that passed the format regex: the     *)
(* engine's legacy date parser.  A named month takes the two numbers as    *)
(* day and year, or as year and day when the first is not a day; another   *)
(* word is skipped and the numbers are read as month, day (year defaults   *)
(* to 1) or, when the first is not a day, as year, month (day 1).  Years   *)
(* 0..49 mean 2000..2049 and 50..99 mean 1950..1999.  The result is the    *)
(* local day number, or -1 for an Invalid Date.                            *)
(***************************************************************************)
InvalidDate == 0 - 1

ExpandYear(y) ==
  IF y >= 0 /\ y <= 49 THEN y + 2000
  ELSE IF y >= 50 /\ y <= 99 THEN y + 1900
  ELSE y

DateFromParts(n1, n2, nm) ==
  LET ymd == IF nm # 0
               THEN IF IsDay(n1) THEN <<n2, nm, n1>> ELSE <<n1, nm, n2>>
               ELSE IF IsDay(n1) THEN <<1, n1, n2>> ELSE <<n1, n2, 1>>
      year == ExpandYear(ymd[1])
  IN  IF IsMonth(ymd[2]) /\ IsDay(ymd[3]) /\ year >= 1
        THEN MakeDay(year, ymd[2], ymd[3])
        ELSE InvalidDate

DateParse(s, fm) ==
  DateFromParts(NumVal(s, fm.dpos, fm.dpos + fm.dlen - 1),
                NumVal(s, fm.ypos, fm.ypos + 3),
                NamedMonth(s))

MinYear == 2020
MaxYear == 2030

\* Variant: the year window is not checked.
AnyYear(year) == TRUE

\* Validation 4: if (year < 2020 || year > 2030) reject.
ReasonableYear(year) == ~(year < MinYear \/ year > MaxYear)

\* Validations 3 and 4, on the Date the constructor returned.
ValidateParsed(parsed) ==
  IF parsed = InvalidDate
    THEN [success |-> FALSE, date |-> InvalidDate, error |-> "parse"]
  ELSE IF ~ReasonableYear(YearOfDay(parsed))
    THEN [success |-> FALSE, date |-> InvalidDate, error |-> "year"]
  ELSE [success |-> TRUE, date |-> parsed, error |-> "none"]

\* Validations 1 and 2, on the outcome of the format regex.
ValidateFormat(dateString, fm) ==
  IF ~fm.ok
    THEN [success |-> FALSE, date |-> InvalidDate, error |-> "format"]
    ELSE ValidateParsed(DateParse(dateString, fm))

\* parseShowDate: success and the parsed local day, or the failed validation.
parseShowDate(dateString) ==
  ValidateFormat(dateString, FormatMatch(dateString))

(***************************************************************************)
(* The date strings of the shows the model explores.                       *)
(***************************************************************************)
DateMar27 == <<"M","a","r"," ","2","7",","," ","2","0","2","6">>
DateMar28 == <<"M","a","r"," ","2","8",","," ","2","0","2","6">>
DateMar29 == <<"M","a","r"," ","2","9",","," ","2","0","2","6">>
DateMar30 == <<"M","a","r"," ","3","0",","," ","2","0","2","6">>
DateMar1 == <<"M","a","r"," ","1",","," ","2","0","2","6">>
DateNoComma == <<"D","e","c"," ","4"," ","2","0","2","5">>
DateDec32 == <<"D","e","c"," ","3","2",","," ","2","0","2","5">>
DateSlashes == <<"1","3","/","2","5","/","2","0","2","5">>
DateWords == <<"n","e","x","t"," ","t","u","e","s","d","a","y">>
DateYear2019 == <<"D","e","c"," ","4",","," ","2","0","1","9">>
DateYear2031 == <<"J","a","n"," ","1",","," ","2","0","3","1">>
DateFeb30 == <<"F","e","b"," ","3","0",","," ","2","0","2","6">>
DateShortYear == <<"D","e","c"," ","4",","," ","0","0","2","5">>
DateNoMonth == <<"X","y","z"," ","4",","," ","2","0","2","6">>
DateLower == <<"m","a","r"," "," ","2","8",","," ","2","0","2","6">>

DateStrings ==
  {DateMar27, DateMar28, DateMar29, DateMar30, DateMar1, DateNoComma,
   DateDec32, DateSlashes, DateWords, DateYear2019, DateYear2031, DateFeb30,
   DateShortYear, DateNoMonth, DateLower}

(***************************************************************************)
(* Local time.  The process runs in the host's time zone: UTC, or Central  *)
(* European time with daylight saving from the last Sunday of March to     *)
(* the last Sunday of October.                                             *)
(***************************************************************************)
TimeZones == {"UTC", "Europe/Amsterdam"}

MinutesPerDay == 1440

\* 1970-01-01 was a Thursday; 0 is Sunday.
WeekDay(day) == (day + 4) % 7

LastSunday(y, m) ==
  LET e == MakeDay(y, m, 31) IN e - WeekDay(e)

\* UTC offset, in minutes, in force at local midnight of the day.
OffsetAtMidnight(day, tz) ==
  IF tz = "UTC" THEN 0
  ELSE LET y == YearOfDay(day)
       IN  IF LastSunday(y, 3) < day /\ day <= LastSunday(y, 10)
             THEN 120 ELSE 60

\* getTime() of local midnight of the day.
LocalMidnight(day, tz) == day * MinutesPerDay - OffsetAtMidnight(day, tz)

\* The local calendar day that holds instant t.
LocalDayOf(t, tz) ==
  LET guess == t \div MinutesPerDay
  IN  CHOOSE d \in (guess - 1)..(guess + 1) :
        LocalMidnight(d, tz) <= t /\ t < LocalMidnight(d + 1, tz)

\* setHours(0, 0, 0, 0): local midnight of the local day holding instant t.
SetHoursZero(t, tz) == LocalMidnight(LocalDayOf(t, tz), tz)

(***************************************************************************)
(* shouldArchiveShow(showDateString, referenceDate)                        *)
(***************************************************************************)
\* Variant: a show is archived only from the second day after its date.
IsBeforeYesterday(showDate, today) == showDate < today - MinutesPerDay

\* Variant: today's show counts as past.
IsBeforeOrToday(showDate, today) == showDate <= today

\* if (showDate < today): only shows before today are archived.
IsBeforeToday(showDate, today) == showDate < today

\* The comparison of the two normalized dates and the decision it gives.
CompareDates(showDate, today) ==
  LET timeDiff == today - showDate
      daysAgo == timeDiff \div MinutesPerDay
  IN  IF IsBeforeToday(showDate, today)
        THEN [shouldArchive |-> TRUE, reason |-> "past",
              hasDate |-> TRUE, showDate |-> showDate, daysAgo |-> daysAgo]
      ELSE IF showDate = today
        THEN [shouldArchive |-> FALSE, reason |-> "today",
              hasDate |-> TRUE, showDate |-> showDate, daysAgo |-> 0]
      ELSE [shouldArchive |-> FALSE, reason |-> "future",
            hasDate |-> TRUE, showDate |-> showDate, daysAgo |-> daysAgo]

\* The decision for a parse result: an unparseable date is never archived.
DecideParsed(parseResult, today, zone) ==
  IF ~parseResult.success
    THEN [shouldArchive |-> FALSE, reason |-> "unparseable",
          hasDate |-> FALSE, showDate |-> 0, daysAgo |-> 0]
    ELSE CompareDates(LocalMidnight(parseResult.date, zone), today)

shouldArchiveShow(showDateString, referenceDate, tz) ==
  DecideParsed(parseShowDate(showDateString),
               SetHoursZero(referenceDate, tz), tz)

(***************************************************************************)
(* The clock of the model, new Date() of archiveShows.  The first run      *)
(* starts at noon of the base day, the day daylight saving starts in       *)
(* Central Europe; later runs start whole days later.                      *)
(***************************************************************************)
BaseDay == MakeDay(2026, 3, 29)
Noon == 12 * 60
BaseTime(zone) == LocalMidnight(BaseDay, zone) + Noon

\* Bound of the exploration: the days the clock may advance over the runs.
MaxDays == 0

(***************************************************************************)
(* Shows, documents and files.                                             *)
(***************************************************************************)
RequiredFields == <<"date", "time", "venue", "city", "status">>

\* A Show: its date string, the fields it has, and `rest`, which stands for
\* the values of every other field (time, venue, city, status, ticketUrl
\* and unknown keys).
Show(date, rest) ==
  [date |-> date, rest |-> rest, fields |-> Range(RequiredFields)]

\* A decoded JSON value, as far as validateShowsStructure inspects it.
ShowsData(upcoming, past, settings) ==
  [isObject |-> TRUE,
   hasUpcoming |-> TRUE, upcoming |-> upcoming,
   hasPast |-> TRUE, past |-> past,
   hasSettings |-> TRUE, settings |-> settings]

\* File contents: no file, bytes that are not JSON, the truncated bytes a
\* write or copy leaves while it is under way, or a JSON text.  `fmt` is the
\* layout of the text: that of the hand-edited source file, or the
\* two-space indentation JSON.stringify(data, null, 2) produces.
Absent == [kind |-> "absent"]
Garbage == [kind |-> "garbage"]
Partial == [kind |-> "partial"]
JsonFile(fmt, data) == [kind |-> "json", fmt |-> fmt, data |-> data]

existsSync(file) == file.kind # "absent"

\* JSON.parse(fs.readFileSync(path)): throws on anything but a JSON text.
JSONparse(file) ==
  IF file.kind = "json" THEN [ok |-> TRUE, value |-> file.data]
  ELSE [ok |-> FALSE, value |-> [isObject |-> FALSE]]

JSONstringify(data) == JsonFile("indent2", data)

(***************************************************************************)
(* validateShowsStructure(data)                                            *)
(***************************************************************************)
\* An element of `upcoming` that is not an object (null, a number, a
\* string): `field in show` throws a TypeError for it.
Primitive == [primitive |-> TRUE]

IsObjectEntry(show) == "fields" \in DOMAIN show

\* First required field, in order, that the show lacks; 0 if it has all.
FirstMissing(show) ==
  IF \E k \in 1..Len(RequiredFields) : RequiredFields[k] \notin show.fields
    THEN CHOOSE k \in 1..Len(RequiredFields) :
           /\ RequiredFields[k] \notin show.fields
           /\ \A j \in 1..(k - 1) : RequiredFields[j] \in show.fields
    ELSE 0

\* The element stops the loop: the `in` operator throws, or a field is
\* missing.
Offending(show) == ~IsObjectEntry(show) \/ FirstMissing(show) # 0

\* What the field loop does at the show it stops at: `field in show`
\* throws for an element that is not an object, else the first missing
\* field is reported.
StopAt(show, i) ==
  IF ~IsObjectEntry(show)
    THEN [valid |-> FALSE, threw |-> TRUE, error |-> "TypeError",
          index |-> i, field |-> "none"]
    ELSE [valid |-> FALSE, threw |-> FALSE,
          error |-> "Upcoming show missing field", index |-> i,
          field |-> RequiredFields[FirstMissing(show)]]

\* `threw` marks the call that ends in an exception instead of a result.
validateShowsStructure(data) ==
  IF ~data.isObject
    THEN [valid |-> FALSE, threw |-> FALSE, error |-> "Data is not an object",
          index |-> 0, field |-> "none"]
  ELSE IF ~data.hasUpcoming
    THEN [valid |-> FALSE, threw |-> FALSE,
          error |-> "Missing or invalid upcoming array",
          index |-> 0, field |-> "none"]
  ELSE IF ~data.hasPast
    THEN [valid |-> FALSE, threw |-> FALSE,
          error |-> "Missing or invalid past array",
          index |-> 0, field |-> "none"]
  ELSE IF ~data.hasSettings
    THEN [valid |-> FALSE, threw |-> FALSE,
          error |-> "Missing or invalid settings object",
          index |-> 0, field |-> "none"]
  ELSE IF \E i \in 1..Len(data.upcoming) : Offending(data.upcoming[i])
    THEN LET i == CHOOSE n \in 1..Len(data.upcoming) :
                    /\ Offending(data.upcoming[n])
                    /\ \A j \in 1..(n - 1) : ~Offending(data.upcoming[j])
         IN  StopAt(data.upcoming[i], i)
  ELSE [valid |-> TRUE, threw |-> FALSE, error |-> "none", index |-> 0,
        field |-> "none"]

(***************************************************************************)
(* archiveShows: the partition, the result and the new document.           *)
(***************************************************************************)
RECURSIVE Reverse(_)
Reverse(q) == IF q = <<>> THEN <<>> ELSE Append(Reverse(Tail(q)), Head(q))

\* The loop over data.upcoming: toArchive and toKeep, in original order.
RECURSIVE Partition(_, _, _)
Partition(upcoming, today, zone) ==
  IF upcoming = <<>> THEN [toArchive |-> <<>>, toKeep |-> <<>>]
  ELSE LET show == Head(upcoming)
           decision == shouldArchiveShow(show.date, today, zone)
           more == Partition(Tail(upcoming), today, zone)
       IN  IF decision.shouldArchive
             THEN [toArchive |-> <<show>> \o more.toArchive,
                   toKeep |-> more.toKeep]
             ELSE [toArchive |-> more.toArchive,
                   toKeep |-> <<show>> \o more.toKeep]

TooManyShows == 10

\* Variant: ten archived shows are already too many.
performSanityChecksAtTen(result) ==
  (IF result.remaining = 0 /\ result.archived > 0 THEN {"all"} ELSE {})
  \cup (IF result.archived >= TooManyShows THEN {"many"} ELSE {})
  \cup (IF \E i \in 1..Len(result.archivedShows) :
             result.archivedShows[i].daysAgo < 0 THEN {"future"} ELSE {})
  \cup (IF \E i \in 1..Len(result.archivedShows) :
             result.archivedShows[i].daysAgo = 0 THEN {"today"} ELSE {})

performSanityChecks(result) ==
  (IF result.remaining = 0 /\ result.archived > 0 THEN {"all"} ELSE {})
  \cup (IF result.archived > TooManyShows THEN {"many"} ELSE {})
  \cup (IF \E i \in 1..Len(result.archivedShows) :
             result.archivedShows[i].daysAgo < 0 THEN {"future"} ELSE {})
  \cup (IF \E i \in 1..Len(result.archivedShows) :
             result.archivedShows[i].daysAgo = 0 THEN {"today"} ELSE {})

\* result.warnings = performSanityChecks(result)
WithWarnings(result) ==
  result @@ [warnings |-> performSanityChecks(result)]

\* Variant: totalPast is the previous past alone.
ArchiveResultStalePast(data, part, today, zone) ==
  WithWarnings([originalUpcoming |-> Len(data.upcoming),
               originalPast |-> Len(data.past),
               archived |-> Len(part.toArchive),
               remaining |-> Len(part.toKeep),
               totalPast |-> Len(data.past),
               archivedShows |->
                 [i \in 1..Len(part.toArchive) |->
                    [date |-> part.toArchive[i].date,
                     rest |-> part.toArchive[i].rest,
                     daysAgo |-> shouldArchiveShow(part.toArchive[i].date,
                                                   today, zone).daysAgo]]])

ArchiveResult(data, part, today, zone) ==
  WithWarnings([originalUpcoming |-> Len(data.upcoming),
               originalPast |-> Len(data.past),
               archived |-> Len(part.toArchive),
               remaining |-> Len(part.toKeep),
               totalPast |-> Len(data.past) + Len(part.toArchive),
               archivedShows |->
                 [i \in 1..Len(part.toArchive) |->
                    [date |-> part.toArchive[i].date,
                     rest |-> part.toArchive[i].rest,
                     daysAgo |-> shouldArchiveShow(part.toArchive[i].date,
                                                   today, zone).daysAgo]]])

\* generateReport: the sections of the report. The backup report lists the
\* file's contents; the dry-run and execute reports hold the summary counts,
\* the archived shows if there are any, and the warnings if there are any.
generateReport(result, reportType) ==
  IF reportType = "backup"
    THEN [type |-> reportType, sections |-> {"upcoming", "past", "settings",
                                             "integrity"}]
    ELSE [type |-> reportType,
          sections |-> {"summary"}
                       \cup (IF result.archived > 0 THEN {"archived"}
                                                    ELSE {"none"})
                       \cup (IF result.warnings # {} THEN {"warnings"}
                                                     ELSE {}),
          summary |-> <<result.originalUpcoming, result.originalPast,
                        result.archived, result.remaining,
                        result.totalPast>>,
          archived |-> IF result.archived > 0 THEN result.archivedShows
                                              ELSE <<>>,
          warnings |-> result.warnings]

\* Two values of the settings object of a shows.json document.
DefaultSettings ==
  [showPastShows |-> TRUE, maxUpcomingDisplay |-> 10,
   maxPastDisplay |-> 20, autoArchiveAfterDays |-> 1]

CustomSettings ==
  [showPastShows |-> FALSE, maxUpcomingDisplay |-> 5,
   maxPastDisplay |-> 8, autoArchiveAfterDays |-> 3]

\* Variant: the archived shows are appended after the previous past.
NewDataAppendsArchived(data, part) ==
  ShowsData(part.toKeep, data.past \o Reverse(part.toArchive),
            data.settings)

\* Variant: the archived shows are added to past and stay in upcoming.
NewDataKeepsUpcoming(data, part) ==
  ShowsData(data.upcoming, Reverse(part.toArchive) \o data.past,
            data.settings)

\* Variant: an archived show is rebuilt from its date alone, without the
\* values of its other fields.
NewDataDateOnly(data, part) ==
  ShowsData(part.toKeep,
            [i \in 1..Len(part.toArchive) |->
               Show(Reverse(part.toArchive)[i].date, "")] \o data.past,
            data.settings)

\* Variant: the archived shows are removed from upcoming, not added to past.
NewDataDropsArchived(data, part) ==
  ShowsData(part.toKeep, data.past, data.settings)

\* Variant: the settings are written from the defaults.
NewDataDefaultSettings(data, part) ==
  ShowsData(part.toKeep, Reverse(part.toArchive) \o data.past,
            DefaultSettings)

\* Variant: toArchive is prepended without reverse().
NewDataNoReverse(data, part) ==
  ShowsData(part.toKeep, part.toArchive \o data.past, data.settings)

\* newData = { upcoming: toKeep, past: [...toArchive.reverse(), ...data.past],
\*             settings: data.settings }
NewData(data, part) ==
  ShowsData(part.toKeep, Reverse(part.toArchive) \o data.past, data.settings)


(***************************************************************************)
(* The sites and the inputs the model explores.                            *)
(***************************************************************************)
SITES == <<"The Dutch Queen (Full Band)", "The Dutch Queen Unplugged">>

SiteIds == 1..Len(SITES)

\* Bound of the exploration: the longest `upcoming` of the single-run
\* specification.
MaxUpcoming == 3

ShowPool ==
  {Show(DateMar27, "a"), Show(DateMar28, "b"), Show(DateMar29, "c"),
   Show(DateMar30, "d"), Show(DateNoComma, "u")}

OldShow == Show(DateMar1, "p")

SeqsUpTo(S, n) == UNION { [1..k -> S] : k \in 0..n }

\* Decoded values that fail validateShowsStructure.
NotAnObject ==
  [isObject |-> FALSE, hasUpcoming |-> FALSE, upcoming |-> <<>>,
   hasPast |-> FALSE, past |-> <<>>, hasSettings |-> FALSE,
   settings |-> DefaultSettings]

MissingFieldData ==
  ShowsData(<< Show(DateMar28, "b"),
               [Show(DateMar28, "m") EXCEPT !.fields = {"date", "time"}] >>,
            <<>>, DefaultSettings)

\* Every valid document with up to n upcoming shows of the pool.
ValidFiles(n) ==
  { JsonFile("source", ShowsData(up, pa, CustomSettings)) :
      up \in SeqsUpTo(ShowPool, n), pa \in {<<>>, <<OldShow>>} }

\* Fifteen upcoming shows, twelve of them dated before the first day of the
\* exploration.
ManyShows ==
  [i \in 1..15 |->
     IF i > 12 THEN Show(DateMar30, "d")
     ELSE IF i % 2 = 1 THEN Show(DateMar27, "a") ELSE Show(DateMar28, "b")]

\* The files the runs over several days start from.
FirstSiteFiles ==
  { JsonFile("source",
             ShowsData(<<Show(DateMar28, "b"), Show(DateNoComma, "u"),
                         Show(DateMar29, "c"), Show(DateMar30, "d")>>,
                       <<OldShow>>, CustomSettings)),
    JsonFile("source",
             ShowsData(<<Show(DateMar27, "a"), Show(DateMar28, "b")>>,
                       <<>>, CustomSettings)),
    JsonFile("source",
             ShowsData(<<Show(DateMar30, "d")>>, <<OldShow>>,
                       DefaultSettings)),
    JsonFile("source", ShowsData(ManyShows, <<OldShow>>, DefaultSettings)),
    Garbage }

SecondSiteFiles ==
  { Absent,
    JsonFile("source", MissingFieldData),
    JsonFile("source",
             ShowsData(<<Show(DateMar28, "b"), Show(DateMar30, "d")>>,
                       <<OldShow>>, DefaultSettings)) }

Args == {"", "--dry-run", "--execute", "--verify", "--exec"}

Advances == {0, MinutesPerDay}

NoData == NotAnObject
NoTimestamp == 0 - 1
NoResult == [archived |-> -1]
NoExit == 0 - 1
NoRun == [mode |-> "none", now |-> 0, applied |-> {}]

(***************************************************************************)
(* State.                                                                  *)
(***************************************************************************)
VARIABLES
  target,       \* target[s]: contents of the site's shows.json
  tmp,          \* tmp[s]: contents of shows.json.tmp
  bak,          \* bak[s]: contents of shows.json.backup
  backupDir,    \* backupDir[s][ts]: shows-backup-<ts>.json of the site
  reports,      \* reports[s]: the report files this run wrote for the site
  now,          \* the instant new Date() returns
  tz,           \* the host's time zone
  mode,         \* args[0] || '--dry-run'
  pc,           \* position of main
  siteIdx,      \* the site of SITES the loop is at
  visited,      \* the sites whose loop body has started, in order
  outcome,      \* outcome[s]: how the site's iteration ended in this run
  backupPath,   \* backupPath[s]: timestamp of the backup createBackup made
  archiveCalls, \* archiveCalls[s]: calls of archiveShows in this run
  result,       \* result[s]: the ArchiveResult of the last archiveShows call
  rejected,     \* sites whose writeShowsFile promise was rejected
  newData,      \* writeShowsFile: the data being written
  failedAt,     \* writeShowsFile: the step that threw, "none" if none
  preCall,      \* writeShowsFile: the target's contents when it was called
  cleanStart,   \* writeShowsFile: no .tmp and no .backup when it was called
  startTarget,  \* startTarget[s]: the target's contents when the run started
  probe,        \* the last decision of the date decision engine on its own
  exitCode,     \* the exit status of the process, NoExit while it runs
  lastRun,      \* the run before, if it replaced a file: mode, instant, sites
  validation,   \* the last call of validateShowsStructure on its own
  sanity        \* the last call of performSanityChecks on its own

vars ==
  <<target, tmp, bak, backupDir, reports, now, tz, mode, pc, siteIdx,
    visited, outcome, backupPath, archiveCalls, result, rejected, newData,
    failedAt, preCall, cleanStart, startTarget, probe, exitCode, lastRun,
    validation, sanity>>

fileVars == <<target, tmp, bak>>
writeVars == <<newData, failedAt, preCall, cleanStart>>
runVars ==
  <<now, tz, mode, startTarget, probe, exitCode, lastRun, validation,
    sanity>>
siteVars == <<visited, backupPath, archiveCalls, result>>

\* Variant: an argument that --execute starts with also enables writing.
dryRunUnlessPrefix == mode \notin {"--execute", "--exec"}

\* Variant: only the literal --dry-run flag makes a dry run.
dryRunOnlyByFlag == mode = "--dry-run"

\* const dryRun = mode !== '--execute'
dryRun == mode # "--execute"

\* Variant: --verify is treated as a dry run.
verifyOnlyNever == FALSE

\* if (mode === '--verify') { ...; continue; }
verifyOnly == mode = "--verify"

NoProbe == [asked |-> FALSE]
NoValidation == [asked |-> FALSE]
NoSanity == [asked |-> FALSE]

InitCommon ==
  /\ tmp = [s \in SiteIds |-> Absent]
  /\ bak = [s \in SiteIds |-> Absent]
  /\ backupDir = [s \in SiteIds |-> <<>>]
  /\ reports = [s \in SiteIds |-> {}]
  /\ tz \in TimeZones
  /\ now = BaseTime(tz)
  /\ mode = "--dry-run"
  /\ pc = "idle"
  /\ siteIdx = 1
  /\ visited = <<>>
  /\ outcome = [s \in SiteIds |-> "none"]
  /\ backupPath = [s \in SiteIds |-> NoTimestamp]
  /\ archiveCalls = [s \in SiteIds |-> 0]
  /\ result = [s \in SiteIds |-> NoResult]
  /\ rejected = {}
  /\ newData = NoData
  /\ failedAt = "none"
  /\ preCall = Absent
  /\ cleanStart = TRUE
  /\ startTarget = target
  /\ probe = NoProbe
  /\ exitCode = NoExit
  /\ lastRun = NoRun
  /\ validation = NoValidation
  /\ sanity = NoSanity

\* Runs over several days: the second site's file is missing or invalid.
Init ==
  /\ target \in { [s \in SiteIds |-> IF s = 1 THEN f ELSE g] :
                    f \in FirstSiteFiles,
                    g \in {Absent, JsonFile("source", MissingFieldData)} }
  /\ InitCommon

\* One run over two sites that both may have a valid file.
InitSites ==
  /\ target \in { [s \in SiteIds |-> IF s = 1 THEN f ELSE g] :
                    f \in FirstSiteFiles, g \in SecondSiteFiles }
  /\ InitCommon

\* One run over every valid document of the first site, and the date
\* decision engine on its own.
InitOne ==
  /\ target \in { [s \in SiteIds |-> IF s = 1 THEN f ELSE Garbage] :
                    f \in ValidFiles(MaxUpcoming) }
                 \cup { [s \in SiteIds |-> Absent] }
  /\ InitCommon

(***************************************************************************)
(* main: the loop over SITES.                                              *)
(***************************************************************************)
\* The end of a loop iteration: the next site, or 'Archive script completed'.
NextSite ==
  IF siteIdx < Len(SITES)
    THEN siteIdx' = siteIdx + 1 /\ pc' = "exists"
    ELSE siteIdx' = siteIdx /\ pc' = "done"

\* Variant: an error ends the loop.
CatchErrorAborts ==
  /\ outcome' = [outcome EXCEPT ![siteIdx] = "error"]
  /\ siteIdx' = siteIdx
  /\ pc' = "done"

\* The catch block of the loop body: log the error, go on with the next site.
CatchError ==
  /\ outcome' = [outcome EXCEPT ![siteIdx] = "error"]
  /\ NextSite

\* What archiveShows computes from a valid document and its partition.
Archived(data, part, today, zone) ==
  [threw |-> FALSE, toArchive |-> part.toArchive,
   result |-> ArchiveResult(data, part, today, zone),
   newData |-> NewData(data, part)]

\* Variant: the result of validateShowsStructure is not looked at.
ArchiveParsedUnvalidated(parsed, today, zone) ==
  IF ~parsed.ok
    THEN [threw |-> TRUE, toArchive |-> <<>>, result |-> NoResult,
          newData |-> NoData]
    ELSE Archived(parsed.value,
                  Partition(parsed.value.upcoming, today, zone), today, zone)

\* archiveShows after JSON.parse: it throws on an invalid document.
ArchiveParsed(parsed, today, zone) ==
  IF ~parsed.ok \/ ~validateShowsStructure(parsed.value).valid
    THEN [threw |-> TRUE, toArchive |-> <<>>, result |-> NoResult,
          newData |-> NoData]
    ELSE Archived(parsed.value,
                  Partition(parsed.value.upcoming, today, zone), today, zone)

archiveShows(file, today, zone) ==
  ArchiveParsed(JSONparse(file), today, zone)

\* The sites whose file this run replaced: changes were applied and
\* writeShowsFile did not throw.
Applied ==
  { s \in SiteIds : /\ pc = "exited"
                    /\ mode = "--execute"
                    /\ outcome[s] = "applied"
                    /\ s \notin rejected }

\* A run of the script starts: process.argv is read, the loop begins.
StartRun(arg, adv) ==
  /\ pc \in {"idle", "exited", "killed"}
  /\ now + adv <= BaseTime(tz) + MaxDays * MinutesPerDay
  /\ lastRun' = (IF \E s \in Applied : TRUE
                   THEN [mode |-> mode, now |-> now, applied |-> Applied]
                   ELSE NoRun)
  /\ exitCode' = NoExit
  /\ now' = now + adv
  /\ mode' = (IF arg = "" THEN "--dry-run" ELSE arg)
  /\ pc' = "exists"
  /\ siteIdx' = 1
  /\ visited' = <<>>
  /\ outcome' = [s \in SiteIds |-> "none"]
  /\ backupPath' = [s \in SiteIds |-> NoTimestamp]
  /\ archiveCalls' = [s \in SiteIds |-> 0]
  /\ result' = [s \in SiteIds |-> NoResult]
  /\ rejected' = {}
  /\ newData' = NoData
  /\ failedAt' = "none"
  /\ preCall' = Absent
  /\ cleanStart' = TRUE
  /\ startTarget' = target
  /\ reports' = [s \in SiteIds |-> {}]
  /\ UNCHANGED <<fileVars, backupDir, tz, probe, validation, sanity>>

\* if (!fs.existsSync(site.filePath)) { ...; continue; }
SiteMissing ==
  /\ pc = "exists"
  /\ ~existsSync(target[siteIdx])
  /\ visited' = Append(visited, siteIdx)
  /\ outcome' = [outcome EXCEPT ![siteIdx] = "missing"]
  /\ NextSite
  /\ UNCHANGED <<fileVars, backupDir, reports, runVars, backupPath,
                 archiveCalls, result, rejected, writeVars>>

\* Variant: an existing file is processed without a backup being made.
SiteExistsSkipsBackup ==
  /\ pc = "exists"
  /\ existsSync(target[siteIdx])
  /\ visited' = Append(visited, siteIdx)
  /\ pc' = "prereport"
  /\ UNCHANGED <<fileVars, backupDir, reports, runVars, siteIdx, outcome,
                 backupPath, archiveCalls, result, rejected, writeVars>>

SiteExists ==
  /\ pc = "exists"
  /\ existsSync(target[siteIdx])
  /\ visited' = Append(visited, siteIdx)
  /\ pc' = "backup"
  /\ UNCHANGED <<fileVars, backupDir, reports, runVars, siteIdx, outcome,
                 backupPath, archiveCalls, result, rejected, writeVars>>

\* Variant: the backup path is computed but the file is not copied.
createBackupNoCopy ==
  /\ pc = "backup"
  /\ backupPath' = [backupPath EXCEPT ![siteIdx] = now]
  /\ pc' = "prereport"
  /\ UNCHANGED <<fileVars, backupDir, reports, runVars, siteIdx, visited,
                 outcome, archiveCalls, result, rejected, writeVars>>

\* createBackup: copy the file to shows-backup-<timestamp>.json.
createBackup ==
  /\ pc = "backup"
  /\ backupDir' = [backupDir EXCEPT
                     ![siteIdx] = (now :> target[siteIdx]) @@ @]
  /\ backupPath' = [backupPath EXCEPT ![siteIdx] = now]
  /\ pc' = "prereport"
  /\ UNCHANGED <<fileVars, reports, runVars, siteIdx, visited, outcome,
                 archiveCalls, result, rejected, writeVars>>

\* Variant: a failed backup is ignored and the site is processed.
createBackupFailsIgnored(removed) ==
  /\ pc = "backup"
  /\ backupDir' = [backupDir EXCEPT
                     ![siteIdx] = IF removed /\ now \in DOMAIN @
                                    THEN (now :> Absent) @@ @ ELSE @]
  /\ pc' = "prereport"
  /\ UNCHANGED <<fileVars, reports, runVars, siteIdx, outcome, siteVars,
                 rejected, writeVars>>

\* createBackup throws (mkdirSync or copyFileSync fails); a failed copy
\* leaves the destination as it was or removes it.
createBackupFails(removed) ==
  /\ pc = "backup"
  /\ backupDir' = [backupDir EXCEPT
                     ![siteIdx] = IF removed /\ now \in DOMAIN @
                                    THEN (now :> Absent) @@ @ ELSE @]
  /\ CatchError
  /\ UNCHANGED <<fileVars, reports, runVars, siteVars, rejected, writeVars>>

\* fs.readFileSync(filePath, 'utf-8') of archiveShows throws, in either of
\* main's two calls.
ReadFails ==
  /\ pc \in {"prereport", "archive"}
  /\ archiveCalls' = [archiveCalls EXCEPT ![siteIdx] = @ + 1]
  /\ CatchError
  /\ UNCHANGED <<fileVars, backupDir, reports, runVars, visited, backupPath,
                 result, rejected, writeVars>>

\* archiveShows(..., true) for the backup report throws: the file is not
\* JSON or fails validation.
BackupReportThrows ==
  /\ pc = "prereport"
  /\ archiveShows(target[siteIdx], now, tz).threw
  /\ archiveCalls' = [archiveCalls EXCEPT ![siteIdx] = @ + 1]
  /\ CatchError
  /\ UNCHANGED <<fileVars, backupDir, reports, runVars, visited, backupPath,
                 result, rejected, writeVars>>

\* The backup report is generated and written; --verify stops here.
BackupReport ==
  /\ pc = "prereport"
  /\ \E r \in {archiveShows(target[siteIdx], now, tz)} :
       /\ ~r.threw
       /\ result' = [result EXCEPT ![siteIdx] = r.result]
  /\ archiveCalls' = [archiveCalls EXCEPT ![siteIdx] = @ + 1]
  /\ reports' = [reports EXCEPT ![siteIdx] = @ \cup {"backup"}]
  /\ IF verifyOnly
       THEN /\ outcome' = [outcome EXCEPT ![siteIdx] = "verified"]
            /\ NextSite
       ELSE /\ pc' = "archive"
            /\ UNCHANGED <<siteIdx, outcome>>
  /\ UNCHANGED <<fileVars, backupDir, runVars, visited, backupPath,
                 rejected, writeVars>>

\* Writing the backup report throws.
BackupReportFails ==
  /\ pc = "prereport"
  /\ \E r \in {archiveShows(target[siteIdx], now, tz)} :
       /\ ~r.threw
       /\ result' = [result EXCEPT ![siteIdx] = r.result]
  /\ archiveCalls' = [archiveCalls EXCEPT ![siteIdx] = @ + 1]
  /\ CatchError
  /\ UNCHANGED <<fileVars, backupDir, reports, runVars, visited, backupPath,
                 rejected, writeVars>>

\* Variant: every run that is not a dry run writes.
ShouldWriteAlways(r) == ~dryRun

\* Variant: a result with warnings is not written.
ShouldWriteUnlessWarned(r) ==
  ~dryRun /\ Len(r.toArchive) > 0 /\ r.result.warnings = {}

\* if (!dryRun && toArchive.length > 0)
ShouldWrite(r) == ~dryRun /\ Len(r.toArchive) > 0

\* archiveShows(..., dryRun): in a dry run, or with nothing to archive, it
\* returns the result; otherwise it calls writeShowsFile(filePath, newData).
ArchiveShows ==
  /\ pc = "archive"
  /\ \E r \in {archiveShows(target[siteIdx], now, tz)} :
       IF r.threw
         THEN /\ CatchError
              /\ UNCHANGED <<result, writeVars>>
         ELSE /\ result' = [result EXCEPT ![siteIdx] = r.result]
              /\ UNCHANGED <<siteIdx, outcome>>
              /\ IF ShouldWrite(r)
                   THEN /\ pc' = "w_tmp"
                        /\ newData' = r.newData
                        /\ failedAt' = "none"
                        /\ preCall' = target[siteIdx]
                        /\ cleanStart' = (~existsSync(tmp[siteIdx])
                                          /\ ~existsSync(bak[siteIdx]))
                   ELSE /\ pc' = "report"
                        /\ newData' = NoData
                        /\ failedAt' = "none"
                        /\ preCall' = Absent
                        /\ cleanStart' = TRUE
  /\ archiveCalls' = [archiveCalls EXCEPT ![siteIdx] = @ + 1]
  /\ UNCHANGED <<fileVars, backupDir, reports, runVars, visited, backupPath,
                 rejected>>

\* The exit statuses the process can end with.  The script sets none, so a
\* run whose promises all settled exits with 0; a rejected writeShowsFile
\* promise is never handled, and the runtime then ends the process with 1
\* or, in versions that only warn about it, with 0.
ExitCodes == IF rejected = {} THEN {0} ELSE {0, 1}

\* main() has returned: the process ends.
ProcessExit(code) ==
  /\ pc = "done"
  /\ code \in ExitCodes
  /\ exitCode' = code
  /\ pc' = "exited"
  /\ UNCHANGED <<fileVars, backupDir, reports, now, tz, mode, startTarget,
                 probe, lastRun, validation, sanity, siteIdx, outcome,
                 siteVars,
                 rejected, writeVars>>

\* The dry-run or execute report is written and the outcome is printed.
ReportKind == IF dryRun THEN "dryrun" ELSE "execute"

Report ==
  /\ pc = "report"
  /\ reports' = [reports EXCEPT ![siteIdx] = @ \cup {ReportKind}]
  /\ outcome' = [outcome EXCEPT ![siteIdx] =
                   IF dryRun /\ result[siteIdx].archived > 0 THEN "preview"
                   ELSE IF ~dryRun /\ result[siteIdx].archived > 0
                     THEN "applied"
                   ELSE "nochange"]
  /\ NextSite
  /\ UNCHANGED <<fileVars, backupDir, runVars, siteVars, rejected,
                 writeVars>>

\* Writing the report throws.
ReportFails ==
  /\ pc = "report"
  /\ CatchError
  /\ UNCHANGED <<fileVars, backupDir, reports, runVars, siteVars, rejected,
                 writeVars>>


(***************************************************************************)
(* writeShowsFile(filePath, data), one file-system call per step.  It is   *)
(* an async function without await that archiveShows calls and does not    *)
(* await: its body runs to the end inside the call, and an exception       *)
(* rejects the returned promise instead of reaching the caller.            *)
(* writeFileSync and copyFileSync are not atomic: the destination is       *)
(* truncated first and filled afterwards.                                  *)
(***************************************************************************)
Throw(step) ==
  /\ failedAt' = step
  /\ pc' = "h_tmp"

writeSame == <<backupDir, reports, runVars, siteIdx, outcome, siteVars,
               newData, preCall, cleanStart>>

\* Variant: the data is written over the target itself.
WriteInPlaceBegin ==
  /\ pc = "w_tmp"
  /\ target' = [target EXCEPT ![siteIdx] = Partial]
  /\ pc' = "w_tmp2"
  /\ UNCHANGED <<tmp, bak, rejected, failedAt, writeSame>>

\* fs.writeFileSync(tmpPath, JSON.stringify(data, null, 2)) opens the file.
WriteTmpBegin ==
  /\ pc = "w_tmp"
  /\ tmp' = [tmp EXCEPT ![siteIdx] = Partial]
  /\ pc' = "w_tmp2"
  /\ UNCHANGED <<target, bak, rejected, failedAt, writeSame>>

\* ... and fills it.
WriteTmpEnd ==
  /\ pc = "w_tmp2"
  /\ tmp' = [tmp EXCEPT ![siteIdx] = JSONstringify(newData)]
  /\ pc' = "w_parse"
  /\ UNCHANGED <<target, bak, rejected, failedAt, writeSame>>

\* writeFileSync throws: before the file is opened, or part-way.
WriteTmpFails ==
  /\ pc \in {"w_tmp", "w_tmp2"}
  /\ Throw("tmp")
  /\ UNCHANGED <<fileVars, rejected, writeSame>>

\* JSON.parse(fs.readFileSync(tmpPath)) succeeds on what was just written.
Reparse ==
  /\ pc = "w_parse"
  /\ IF JSONparse(tmp[siteIdx]).ok
       THEN pc' = "w_copy" /\ UNCHANGED failedAt
       ELSE Throw("parse")
  /\ UNCHANGED <<fileVars, rejected, writeSame>>

\* readFileSync throws.
ReparseFails ==
  /\ pc = "w_parse"
  /\ Throw("parse")
  /\ UNCHANGED <<fileVars, rejected, writeSame>>

\* if (existsSync(filePath)) copyFileSync(filePath, backupPath): begins.
CopyBackupBegin ==
  /\ pc = "w_copy"
  /\ IF existsSync(target[siteIdx])
       THEN /\ bak' = [bak EXCEPT ![siteIdx] = Partial]
            /\ pc' = "w_copy2"
       ELSE /\ pc' = "w_rename"
            /\ UNCHANGED bak
  /\ UNCHANGED <<target, tmp, rejected, failedAt, writeSame>>

CopyBackupEnd ==
  /\ pc = "w_copy2"
  /\ bak' = [bak EXCEPT ![siteIdx] = target[siteIdx]]
  /\ pc' = "w_rename"
  /\ UNCHANGED <<target, tmp, rejected, failedAt, writeSame>>

\* copyFileSync throws: before the destination is opened (it stays as it
\* was), or part-way (the failed copy removes the destination).
CopyBackupFails ==
  /\ \/ pc = "w_copy" /\ existsSync(target[siteIdx]) /\ UNCHANGED bak
     \/ pc = "w_copy2" /\ bak' = [bak EXCEPT ![siteIdx] = Absent]
  /\ Throw("copy")
  /\ UNCHANGED <<target, tmp, rejected, writeSame>>

\* fs.renameSync(tmpPath, filePath): the atomic replace.
Rename ==
  /\ pc = "w_rename"
  /\ target' = [target EXCEPT ![siteIdx] = tmp[siteIdx]]
  /\ tmp' = [tmp EXCEPT ![siteIdx] = Absent]
  /\ pc' = "w_unlink"
  /\ UNCHANGED <<bak, rejected, failedAt, writeSame>>

RenameFails ==
  /\ pc = "w_rename"
  /\ Throw("rename")
  /\ UNCHANGED <<fileVars, rejected, writeSame>>

\* if (existsSync(backupPath)) unlinkSync(backupPath); the promise resolves.
UnlinkBackup ==
  /\ pc = "w_unlink"
  /\ bak' = [bak EXCEPT ![siteIdx] = Absent]
  /\ pc' = "report"
  /\ UNCHANGED <<target, tmp, rejected, failedAt, writeSame>>

UnlinkBackupFails ==
  /\ pc = "w_unlink"
  /\ existsSync(bak[siteIdx])
  /\ Throw("unlink")
  /\ UNCHANGED <<fileVars, rejected, writeSame>>

\* catch: if (existsSync(tmpPath)) unlinkSync(tmpPath)
CatchUnlinkTmp ==
  /\ pc = "h_tmp"
  /\ tmp' = [tmp EXCEPT ![siteIdx] = Absent]
  /\ pc' = "h_restore"
  /\ UNCHANGED <<target, bak, rejected, failedAt, writeSame>>

\* catch: if (existsSync(backupPath)) copyFileSync(backupPath, filePath)
\* begins; without a .backup file the error is thrown again right away.
CatchRestoreBegin ==
  /\ pc = "h_restore"
  /\ IF existsSync(bak[siteIdx])
       THEN /\ target' = [target EXCEPT ![siteIdx] = Partial]
            /\ pc' = "h_restore2"
            /\ UNCHANGED rejected
       ELSE /\ rejected' = rejected \cup {siteIdx}
            /\ pc' = "report"
            /\ UNCHANGED target
  /\ UNCHANGED <<tmp, bak, failedAt, writeSame>>

CatchRestoreEnd ==
  /\ pc = "h_restore2"
  /\ target' = [target EXCEPT ![siteIdx] = bak[siteIdx]]
  /\ pc' = "h_unlink"
  /\ UNCHANGED <<tmp, bak, rejected, failedAt, writeSame>>

\* catch: unlinkSync(backupPath); throw err
CatchUnlinkBackup ==
  /\ pc = "h_unlink"
  /\ bak' = [bak EXCEPT ![siteIdx] = Absent]
  /\ rejected' = rejected \cup {siteIdx}
  /\ pc' = "report"
  /\ UNCHANGED <<target, tmp, failedAt, writeSame>>

\* The process is terminated from outside, between two file-system effects.
Kill ==
  /\ pc \notin {"idle", "done", "exited", "killed"}
  /\ pc' = "killed"
  /\ UNCHANGED <<fileVars, backupDir, reports, runVars, siteIdx, outcome,
                 siteVars, rejected, writeVars>>

writeShowsFile ==
  \/ WriteTmpBegin \/ WriteTmpEnd \/ WriteTmpFails
  \/ Reparse \/ ReparseFails
  \/ CopyBackupBegin \/ CopyBackupEnd \/ CopyBackupFails
  \/ Rename \/ RenameFails
  \/ UnlinkBackup \/ UnlinkBackupFails
  \/ CatchUnlinkTmp \/ CatchRestoreBegin \/ CatchRestoreEnd
  \/ CatchUnlinkBackup

main ==
  \/ \E arg \in Args, adv \in Advances : StartRun(arg, adv)
  \/ SiteMissing \/ SiteExists
  \/ createBackup
  \/ \E removed \in BOOLEAN : createBackupFails(removed)
  \/ ReadFails
  \/ BackupReportThrows \/ BackupReport \/ BackupReportFails
  \/ ArchiveShows
  \/ Report \/ ReportFails
  \/ \E code \in {0, 1} : ProcessExit(code)

\* Runs of the script, one after the other, each to its end.
Next == main \/ writeShowsFile

Spec == Init /\ [][Next]_vars

\* Runs of the script that may be terminated at any point.
NextKill == Next \/ Kill

SpecKill == Init /\ [][NextKill]_vars

\* A single run of the script, which keeps executing until it ends.
FirstRun ==
  /\ pc = "idle"
  /\ ~probe.asked
  /\ \E arg \in Args : StartRun(arg, 0)

mainOnce ==
  \/ FirstRun
  \/ SiteMissing \/ SiteExists
  \/ createBackup
  \/ \E removed \in BOOLEAN : createBackupFails(removed)
  \/ ReadFails
  \/ BackupReportThrows \/ BackupReport \/ BackupReportFails
  \/ ArchiveShows
  \/ Report \/ ReportFails
  \/ \E code \in {0, 1} : ProcessExit(code)

NextSites == mainOnce \/ writeShowsFile

SpecSites == InitSites /\ [][NextSites]_vars /\ WF_vars(NextSites)

(***************************************************************************)
(* The date decision engine on its own: shouldArchiveShow applied to a     *)
(* date string and a reference instant.                                    *)
(***************************************************************************)
RefSpan == 1

ParsedDays ==
  { parseShowDate(ds).date : ds \in { d \in DateStrings :
                                        parseShowDate(d).success } }

RefDays == UNION { (d - RefSpan)..(d + RefSpan) : d \in ParsedDays }

TimesOfDay == {0, Noon, MinutesPerDay - 1}

Decide(ds, day, tod) ==
  /\ pc = "idle"
  /\ ~probe.asked
  /\ ~validation.asked
  /\ ~sanity.asked
  /\ \A s \in SiteIds : ~existsSync(target[s])
  /\ probe' = [asked |-> TRUE, dateString |-> ds,
                referenceDate |-> LocalMidnight(day, tz) + tod,
                decision |-> shouldArchiveShow(
                               ds, LocalMidnight(day, tz) + tod, tz)]
  /\ UNCHANGED <<fileVars, backupDir, reports, now, tz, mode, pc, siteIdx,
                 outcome, siteVars, rejected, writeVars, startTarget,
                 exitCode, lastRun, validation, sanity>>

DecideAny ==
  \E ds \in DateStrings, day \in RefDays, tod \in TimesOfDay :
    Decide(ds, day, tod)

(***************************************************************************)
(* validateShowsStructure on its own, applied to a decoded JSON value.     *)
(***************************************************************************)
\* Bound of the exploration: the longest `upcoming` of these values.
MaxEntries == 2

\* Elements of `upcoming`: a complete show, shows that lack one or two
\* required fields, and an element that is not an object.
Entries ==
  { Show(DateMar28, "b"),
    [Show(DateMar28, "t") EXCEPT !.fields = @ \ {"time"}],
    [Show(DateMar28, "v") EXCEPT !.fields = @ \ {"date", "venue"}],
    [Show(DateMar28, "s") EXCEPT !.fields = @ \ {"status"}],
    Primitive }

\* Decoded values: one that is not an object, and objects with or without
\* an `upcoming` array, a `past` array and a `settings` object.
DecodedValues ==
  {NotAnObject} \cup
  { [isObject |-> TRUE,
     hasUpcoming |-> hu, upcoming |-> IF hu THEN up ELSE <<>>,
     hasPast |-> hp, past |-> <<>>,
     hasSettings |-> hs, settings |-> DefaultSettings] :
      hu \in BOOLEAN, hp \in BOOLEAN, hs \in BOOLEAN,
      up \in SeqsUpTo(Entries, MaxEntries) }

Validate(data) ==
  /\ pc = "idle"
  /\ ~probe.asked
  /\ ~validation.asked
  /\ ~sanity.asked
  /\ \A s \in SiteIds : ~existsSync(target[s])
  /\ validation' = [asked |-> TRUE, data |-> data,
                    result |-> validateShowsStructure(data)]
  /\ UNCHANGED <<fileVars, backupDir, reports, now, tz, mode, pc, siteIdx,
                 outcome, siteVars, rejected, writeVars, startTarget,
                 exitCode, lastRun, probe, sanity>>

ValidateAny == \E data \in DecodedValues : Validate(data)

(***************************************************************************)
(* performSanityChecks and generateReport on their own, applied to a       *)
(* result.                                                                 *)
(***************************************************************************)
\* Bound of the exploration: the largest number of archived shows.
MaxArchived == 12

\* Results with 0..MaxArchived archived shows and none or one remaining;
\* the first archived show is of tomorrow, of today or of yesterday.
SanityInputs ==
  { [originalUpcoming |-> a + k, originalPast |-> 0,
     archived |-> a, remaining |-> k, totalPast |-> a,
     archivedShows |->
       [i \in 1..a |-> [date |-> DateMar27, rest |-> "a",
                        daysAgo |-> IF i = 1 THEN d ELSE 1]]] :
      a \in 0..MaxArchived, k \in 0..1, d \in {0 - 1, 0, 1} }

Sanity(r) ==
  /\ pc = "idle"
  /\ ~probe.asked
  /\ ~validation.asked
  /\ ~sanity.asked
  /\ \A s \in SiteIds : ~existsSync(target[s])
  /\ sanity' = [asked |-> TRUE, result |-> WithWarnings(r),
                dryrun |-> generateReport(WithWarnings(r), "dryrun"),
                execute |-> generateReport(WithWarnings(r), "execute")]
  /\ UNCHANGED <<fileVars, backupDir, reports, now, tz, mode, pc, siteIdx,
                 outcome, siteVars, rejected, writeVars, startTarget,
                 exitCode, lastRun, probe, validation>>

SanityAny == \E r \in SanityInputs : Sanity(r)

\* A run in which no file-system call fails.
mainOne ==
  \/ FirstRun
  \/ SiteMissing \/ SiteExists
  \/ createBackup
  \/ BackupReportThrows \/ BackupReport
  \/ ArchiveShows
  \/ Report
  \/ \E code \in {0, 1} : ProcessExit(code)

writeShowsFileOne ==
  \/ WriteTmpBegin \/ WriteTmpEnd \/ Reparse
  \/ CopyBackupBegin \/ CopyBackupEnd
  \/ Rename \/ UnlinkBackup

NextOne ==
  DecideAny \/ ValidateAny \/ SanityAny \/ mainOne \/ writeShowsFileOne

SpecOne == InitOne /\ [][NextOne]_vars


(***************************************************************************)
(* Properties.                                                             *)
(***************************************************************************)
\* The file holds a document that passes validateShowsStructure.
IsDoc(file) == file.kind = "json" /\ validateShowsStructure(file.data).valid

Total(file) == Len(file.data.upcoming) + Len(file.data.past)

Count(q, x) == Cardinality({ i \in DOMAIN q : q[i] = x })

\* An --execute run replaced the first site's file.
Replaced(s) ==
  /\ pc = "done"
  /\ mode = "--execute"
  /\ IsDoc(startTarget[s])
  /\ IsDoc(target[s])
  /\ target[s] # startTarget[s]

\* C1. Conservation: when a run has ended, each site's persisted document
\* has the same count(upcoming) + count(past) as the document the run
\* started from; this holds for every run of a sequence, in every mode.
Conservation ==
  \A s \in SiteIds :
    (pc = "done" /\ IsDoc(startTarget[s])) =>
      (IsDoc(target[s]) /\ Total(target[s]) = Total(startTarget[s]))

ConservationWitness == Replaced(1)

\* The show's date parses and is today or later (as local calendar days).
NotBefore(date, t) ==
  /\ parseShowDate(date).success
  /\ parseShowDate(date).date >= LocalDayOf(t, tz)

NotBeforeNow(date) == NotBefore(date, now)

\* The shows of the start document whose date satisfies Keep are in
\* `upcoming` and in `past` of the current document as often as at the start.
KeptInPlace(s, Keep(_)) ==
  \A i \in DOMAIN startTarget[s].data.upcoming :
    LET sh == startTarget[s].data.upcoming[i]
    IN  Keep(sh.date) =>
          /\ Count(target[s].data.upcoming, sh)
               = Count(startTarget[s].data.upcoming, sh)
          /\ Count(target[s].data.past, sh)
               = Count(startTarget[s].data.past, sh)

\* C2. A show dated today or later (both normalized to local midnight) is
\* never archived: shouldArchiveShow answers shouldArchive = FALSE, and
\* throughout and after an --execute run the show is still in `upcoming`
\* and not in `past`.
NoFutureArchiving ==
  /\ (probe.asked /\ NotBefore(probe.dateString, probe.referenceDate))
       => ~probe.decision.shouldArchive
  /\ \A s \in SiteIds :
       IsDoc(startTarget[s]) =>
         /\ IsDoc(target[s])
         /\ KeptInPlace(s, NotBeforeNow)

NoFutureArchivingWitness ==
  /\ Replaced(1)
  /\ \E i \in DOMAIN target[1].data.upcoming :
       target[1].data.upcoming[i].date = DateMar29

\* The strings that fail the surface format (slashes, words, missing
\* comma), fail calendar parsing (day 32, no month) or have a year outside
\* 2020-2030.
UnparseableStrings ==
  {DateSlashes, DateWords, DateNoComma, DateDec32, DateNoMonth,
   DateYear2019, DateYear2031}

IsUnparseable(date) == date \in UnparseableStrings

\* C3. Unparseable-is-kept: for each of these strings shouldArchiveShow
\* answers shouldArchive = FALSE without a show date, the show is counted
\* as remaining, and it stays in `upcoming` through an --execute run.
UnparseableIsKept ==
  /\ (probe.asked /\ probe.dateString \in UnparseableStrings)
       => (~probe.decision.shouldArchive /\ ~probe.decision.hasDate)
  /\ \A s \in SiteIds :
       IsDoc(startTarget[s]) =>
         /\ IsDoc(target[s])
         /\ KeptInPlace(s, IsUnparseable)
         /\ result[s] # NoResult =>
              result[s].remaining >=
                Cardinality({ i \in DOMAIN startTarget[s].data.upcoming :
                  startTarget[s].data.upcoming[i].date
                    \in UnparseableStrings })

UnparseableIsKeptWitness ==
  /\ Replaced(1)
  /\ \E i \in DOMAIN target[1].data.upcoming :
       target[1].data.upcoming[i].date = DateNoComma

\* C4. In a dry run (no argument, --dry-run, any other argument) and in
\* --verify mode no step changes a site's shows.json, and no step creates
\* or changes its .tmp or .backup file.
PreviewWritesNothing ==
  [][mode' # "--execute" => UNCHANGED <<target, tmp, bak>>]_vars

PreviewWritesNothingWitness ==
  /\ pc = "done"
  /\ mode # "--execute"
  /\ result[1] # NoResult
  /\ result[1].archived > 0
  /\ target = startTarget

\* C5. Atomic-write safety: when writeShowsFile started without a leftover
\* .tmp or .backup and one of its steps up to the rename threw, then after
\* the catch block the target exists with the contents it had before the
\* call, and the promise is rejected.
AtomicWriteSafety ==
  (pc = "report" /\ cleanStart
     /\ failedAt \in {"tmp", "parse", "copy", "rename"}) =>
    /\ existsSync(target[siteIdx])
    /\ target[siteIdx] = preCall
    /\ siteIdx \in rejected

AtomicWriteSafetyWitness ==
  /\ pc = "report"
  /\ cleanStart
  /\ failedAt = "rename"
  /\ siteIdx \in rejected
  /\ ~existsSync(bak[siteIdx])

\* C6. An interrupted --execute run leaves each target holding the complete
\* document of before the run or the complete new document.
InterruptedRunKeepsTarget ==
  \A s \in SiteIds :
    (pc = "killed" /\ IsDoc(startTarget[s])) =>
      target[s] \in
        { startTarget[s],
          JSONstringify(archiveShows(startTarget[s], now, tz).newData) }

\* C7. Backup gate: a step changes a site's target only after createBackup
\* has copied that site's file in the same run, and a site whose
\* createBackup failed has had no archiveShows call and has its target
\* unchanged.
BackupGate ==
  [][ \A s \in SiteIds :
        /\ target'[s] # target[s] =>
             /\ backupPath[s] # NoTimestamp
             /\ backupDir[s][backupPath[s]] = startTarget[s]
        /\ (outcome'[s] = "error" /\ backupPath'[s] = NoTimestamp) =>
             /\ archiveCalls'[s] = 0
             /\ target'[s] = startTarget'[s] ]_vars

BackupGateWitness ==
  /\ Replaced(1)
  /\ backupPath[1] # NoTimestamp
  /\ backupDir[1][backupPath[1]] = startTarget[1]

\* The outcomes a site's iteration can have, given its own file and the mode.
ExpectedOutcomes(file, m) ==
  IF ~existsSync(file) THEN {"missing"}
  ELSE IF ~IsDoc(file) THEN {"error"}
  ELSE IF m = "--verify" THEN {"verified", "error"}
  ELSE IF Len(archiveShows(file, now, tz).toArchive) = 0
    THEN {"nochange", "error"}
  ELSE IF m = "--execute" THEN {"applied", "error"}
  ELSE {"preview", "error"}

AllSites == [i \in 1..Len(SITES) |-> i]

\* C8. Site isolation: the sites are visited once each, in list order; the
\* steps of one site's iteration leave the files, reports and outcome of
\* every other site alone; each site's outcome is one its own file allows,
\* whatever happened to the others; and the run reaches the final
\* 'Archive script completed' step.
SiteIsolation ==
  /\ [](/\ Len(visited) <= Len(SITES)
        /\ visited = SubSeq(AllSites, 1, Len(visited))
        /\ pc = "done" =>
             /\ visited = AllSites
             /\ \A s \in SiteIds :
                  outcome[s] \in ExpectedOutcomes(startTarget[s], mode))
  /\ [][ \A t \in SiteIds :
           t # siteIdx =>
             /\ target'[t] = target[t]
             /\ tmp'[t] = tmp[t]
             /\ bak'[t] = bak[t]
             /\ backupDir'[t] = backupDir[t]
             /\ reports'[t] = reports[t]
             /\ outcome'[t] = outcome[t] ]_vars
  /\ <>(pc = "done")

SiteIsolationWitness ==
  /\ pc = "done"
  /\ outcome[1] = "error"
  /\ outcome[2] = "applied"
  /\ target[1] = startTarget[1]

Archivable(show) == shouldArchiveShow(show.date, now, tz).shouldArchive

NotArchivable(show) == ~Archivable(show)

\* C9. Order preservation: after an --execute run that archives a show,
\* the persisted `past` is the archived shows, in reverse of their order in
\* the original `upcoming`, followed by the previous `past`, and the
\* persisted `upcoming` is the kept shows in their original order.
OrderPreservation ==
  \A s \in SiteIds :
    (/\ pc = "done"
     /\ mode = "--execute"
     /\ IsDoc(startTarget[s])
     /\ \E i \in DOMAIN startTarget[s].data.upcoming :
          Archivable(startTarget[s].data.upcoming[i])) =>
      /\ IsDoc(target[s])
      /\ target[s].data.past =
           Reverse(SelectSeq(startTarget[s].data.upcoming, Archivable))
             \o startTarget[s].data.past
      /\ target[s].data.upcoming =
           SelectSeq(startTarget[s].data.upcoming, NotArchivable)

OrderPreservationWitness ==
  /\ Replaced(1)
  /\ Len(target[1].data.past) >= 3
  /\ target[1].data.past[1] # target[1].data.past[2]
  /\ Len(target[1].data.upcoming) >= 1

\* C10. Settings pass-through: when a run has ended, in any mode and also
\* when its write failed, the `settings` of each site's persisted document
\* are those of the document the run started from.
SettingsPassThrough ==
  \A s \in SiteIds :
    (pc = "done" /\ IsDoc(startTarget[s])) =>
      /\ IsDoc(target[s])
      /\ target[s].data.settings = startTarget[s].data.settings

SettingsPassThroughWitness ==
  /\ Replaced(1)
  /\ target[1].data.settings = CustomSettings

\* The Show records of a document: those of `upcoming`, then those of `past`.
Records(file) == file.data.upcoming \o file.data.past

\* C11. Show pass-through: after an --execute run each site's persisted
\* document holds every Show record of the document the run started from,
\* with all its fields and values, exactly as often as before, in
\* `upcoming` and `past` taken together; none is added, dropped or changed.
ShowPassThrough ==
  \A s \in SiteIds :
    (pc = "done" /\ mode = "--execute" /\ IsDoc(startTarget[s])) =>
      /\ IsDoc(target[s])
      /\ \A x \in Range(Records(startTarget[s]))
                    \cup Range(Records(target[s])) :
           Count(Records(target[s]), x) = Count(Records(startTarget[s]), x)

\* A record that `upcoming` held twice was archived, and `past` holds it twice.
ShowPassThroughWitness ==
  /\ Replaced(1)
  /\ \E x \in Range(startTarget[1].data.upcoming) :
       /\ Count(startTarget[1].data.upcoming, x) = 2
       /\ Count(target[1].data.past, x) = 2

\* The run follows an --execute run of the same local day whose write of
\* the site's file succeeded, and is itself an --execute run.
SecondApply(s) ==
  /\ lastRun.mode = "--execute"
  /\ s \in lastRun.applied
  /\ mode = "--execute"
  /\ LocalDayOf(now, tz) = LocalDayOf(lastRun.now, tz)

\* The positions of main outside writeShowsFile.
MainPcs ==
  {"idle", "exists", "backup", "prereport", "archive", "report", "done",
   "exited", "killed"}

\* C12. Idempotence of no-op: an --execute run that follows, on the same
\* reference day, an --execute run whose write succeeded finds nothing to
\* archive (archived = 0, no archived shows), never enters writeShowsFile
\* for the site, and leaves the target as the first run wrote it.
NoOpIdempotence ==
  \A s \in SiteIds :
    SecondApply(s) =>
      /\ target[s] = startTarget[s]
      /\ siteIdx = s => pc \in MainPcs
      /\ result[s] # NoResult =>
           /\ result[s].archived = 0
           /\ result[s].archivedShows = <<>>
      /\ outcome[s] \in {"none", "nochange", "error"}

NoOpIdempotenceWitness ==
  /\ SecondApply(1)
  /\ pc = "exited"
  /\ outcome[1] = "nochange"
  /\ result[1].archived = 0
  /\ target[1].fmt = "indent2"
  /\ "execute" \in reports[1]

\* The site's iteration of an --execute run ended without an error and
\* without a failed write.
AppliedCleanly(s) ==
  /\ pc \in {"done", "exited"}
  /\ mode = "--execute"
  /\ IsDoc(startTarget[s])
  /\ outcome[s] \in {"applied", "nochange"}
  /\ s \notin rejected

\* C13. Sanity-check warnings are advisory: when an --execute run ended for
\* a site whose result carries warnings, the site's file was replaced:
\* `upcoming` holds the remaining shows, and every show of toArchive is in
\* `past` as often as it left `upcoming`.
WarningsAreAdvisory ==
  \A s \in SiteIds :
    (AppliedCleanly(s) /\ result[s].warnings # {}) =>
      /\ result[s].archived > 0
      /\ IsDoc(target[s])
      /\ target[s] # startTarget[s]
      /\ Len(target[s].data.upcoming) = result[s].remaining
      /\ Len(target[s].data.past) = result[s].totalPast
      /\ \A i \in DOMAIN result[s].archivedShows :
           LET x == Show(result[s].archivedShows[i].date,
                         result[s].archivedShows[i].rest)
           IN  Count(target[s].data.past, x)
                 = Count(startTarget[s].data.past, x)
                   + Count(startTarget[s].data.upcoming, x)
                   - Count(target[s].data.upcoming, x)

\* Fifteen upcoming shows, twelve before today: the warning about more
\* than ten shows was given and all twelve are in `past`.
WarningsAreAdvisoryWitness ==
  /\ AppliedCleanly(1)
  /\ startTarget[1].data.upcoming = ManyShows
  /\ "many" \in result[1].warnings
  /\ result[1].archived = 12
  /\ Len(target[1].data.upcoming) = 3
  /\ Len(target[1].data.past) = 13
  /\ \A i \in 1..12 : target[1].data.past[i] = ManyShows[13 - i]

\* The backup createBackup made for the site in this run exists and holds
\* the document the run started from.
HasBackup(s) ==
  /\ backupPath[s] # NoTimestamp
  /\ backupPath[s] \in DOMAIN backupDir[s]
  /\ backupDir[s][backupPath[s]] = startTarget[s]

WriteFailureIsFatal ==
  \A s \in SiteIds :
    (pc \in {"done", "exited"} /\ s \in rejected) =>
      /\ outcome[s] = "error"
      /\ "execute" \notin reports[s]

\* C16 as stated: in --verify mode no result of the partition of
\* `upcoming` and of performSanityChecks is computed; no write is attempted;
\* only the backup report is produced.
VerifyWithoutPartition ==
  mode = "--verify" =>
    \A s \in SiteIds :
      /\ result[s] = NoResult
      /\ siteIdx = s => pc \in MainPcs
      /\ reports[s] \subseteq {"backup"}

\* C16, amended. In --verify mode archiveShows is called once per site, as
\* a dry run, for the backup report: the partition and the sanity checks
\* are computed and only the counts of the document are shown.  No write
\* is attempted, no file of the site changes, and the only report is the
\* backup report; a verified site has its backup and that report.
VerifyOnly ==
  mode = "--verify" =>
    \A s \in SiteIds :
      /\ archiveCalls[s] <= 1
      /\ siteIdx = s => pc \in MainPcs
      /\ target[s] = startTarget[s]
      /\ reports[s] \subseteq {"backup"}
      /\ outcome[s] \in {"none", "missing", "error", "verified"}
      /\ outcome[s] = "verified" =>
           /\ archiveCalls[s] = 1
           /\ HasBackup(s)
           /\ reports[s] = {"backup"}
           /\ result[s].originalUpcoming = Len(startTarget[s].data.upcoming)
           /\ result[s].originalPast = Len(startTarget[s].data.past)
           /\ result[s].archived + result[s].remaining
                = result[s].originalUpcoming

\* A --verify run ended: the first site was verified, and the one call of
\* archiveShows found shows to archive.
VerifyOnlyWitness ==
  /\ mode = "--verify"
  /\ pc = "exited"
  /\ outcome[1] = "verified"
  /\ archiveCalls[1] = 1
  /\ result[1].archived > 0
  /\ "all" \in result[1].warnings
  /\ target[1] = startTarget[1]

\* The site's iteration ended in a fatal error: its file was missing, or
\* an error was caught.
FatalError(s) == outcome[s] \in {"missing", "error"}

\* C17. When the process has ended, its exit status is non-zero if a site
\* met a fatal error, and zero if none did.
ExitStatusReportsErrors ==
  pc = "exited" =>
    (exitCode # 0 <=> \E s \in SiteIds : FatalError(s))

\* C18. Backup artifacts are immutable: no step removes or changes a
\* backup file that exists, so each run's backup keeps holding the document
\* as it was before that run.
BackupsAreImmutable ==
  [][ \A s \in SiteIds :
        \A ts \in DOMAIN backupDir[s] :
          /\ ts \in DOMAIN backupDir'[s]
          /\ backupDir'[s][ts] = backupDir[s][ts] ]_vars

HasValidDate(show) == parseShowDate(show.date).success

DayOf(show) == parseShowDate(show.date).date

\* Of two shows of q with valid dates, the earlier in q is not dated before
\* the later in q.
MostRecentFirst(q) ==
  \A i, j \in DOMAIN q :
    (i < j /\ HasValidDate(q[i]) /\ HasValidDate(q[j])) =>
      DayOf(q[i]) >= DayOf(q[j])

\* Of two shows of q with valid dates, the earlier in q is not dated after
\* the later in q.
EarliestFirst(q) ==
  \A i, j \in DOMAIN q :
    (i < j /\ HasValidDate(q[i]) /\ HasValidDate(q[j])) =>
      DayOf(q[i]) <= DayOf(q[j])

ArchivedInOrder(s) ==
  /\ EarliestFirst(SelectSeq(startTarget[s].data.upcoming, Archivable))
  /\ MostRecentFirst(startTarget[s].data.past)
  /\ \A i \in DOMAIN startTarget[s].data.upcoming :
       \A j \in DOMAIN startTarget[s].data.past :
         (/\ Archivable(startTarget[s].data.upcoming[i])
          /\ HasValidDate(startTarget[s].data.past[j])) =>
           DayOf(startTarget[s].data.past[j])
             <= DayOf(startTarget[s].data.upcoming[i])

BackupBeforeValidation ==
  \A s \in SiteIds :
    /\ archiveCalls[s] > 0 => HasBackup(s)
    /\ (/\ existsSync(startTarget[s])
        /\ ~IsDoc(startTarget[s])
        /\ archiveCalls[s] > 0) =>
         /\ outcome[s] = "error"
         /\ result[s] = NoResult
         /\ target[s] = startTarget[s]

\* The run has ended; the first site's file was not JSON, the second's
\* lacked a required field, and each has its backup.
BackupBeforeValidationWitness ==
  /\ pc = "exited"
  /\ startTarget[1] = Garbage
  /\ startTarget[2] = JsonFile("source", MissingFieldData)
  /\ archiveCalls[1] = 1
  /\ archiveCalls[2] = 1
  /\ backupDir[1][backupPath[1]] = Garbage
  /\ backupDir[2][backupPath[2]] = JsonFile("source", MissingFieldData)
  /\ outcome = [s \in SiteIds |-> "error"]

\* The show's date parses and its local day is before the local day of t.
StrictlyBefore(date, t) ==
  /\ parseShowDate(date).success
  /\ parseShowDate(date).date < LocalDayOf(t, tz)

\* C21. Completeness of archiving: shouldArchiveShow answers
\* shouldArchive = TRUE for every date that is well-formed, parseable,
\* within 2020-2030 and before the reference day, and after an --execute
\* run that ended without error no such show is left in `upcoming`.
ArchivingIsComplete ==
  /\ (probe.asked /\ StrictlyBefore(probe.dateString, probe.referenceDate))
       => probe.decision.shouldArchive
  /\ \A s \in SiteIds :
       AppliedCleanly(s) =>
         /\ IsDoc(target[s])
         /\ \A i \in DOMAIN target[s].data.upcoming :
              ~StrictlyBefore(target[s].data.upcoming[i].date, now)

\* A show of the day before the run was in `upcoming`; the run replaced the
\* file and kept other shows.
ArchivingIsCompleteWitness ==
  /\ AppliedCleanly(1)
  /\ Replaced(1)
  /\ \E i \in DOMAIN startTarget[1].data.upcoming :
       startTarget[1].data.upcoming[i].date = DateMar28
  /\ Len(target[1].data.upcoming) >= 1

\* C22. Every show slated for archiving has daysAgo >= 1: whenever
\* shouldArchiveShow answers shouldArchive = TRUE its daysAgo is positive,
\* and no result carries the warning about a future show or about today's
\* show being archived.
DaysAgoIsPositive ==
  /\ (probe.asked /\ probe.decision.shouldArchive)
       => probe.decision.daysAgo >= 1
  /\ \A s \in SiteIds :
       result[s] # NoResult =>
         result[s].warnings \cap {"future", "today"} = {}

\* Index of the first element of `upcoming` that lacks a required field
\* or is not an object; 0 if there is none.
FirstOffending(data) ==
  IF \E i \in DOMAIN data.upcoming : Offending(data.upcoming[i])
    THEN CHOOSE i \in DOMAIN data.upcoming :
           /\ Offending(data.upcoming[i])
           /\ \A j \in 1..(i - 1) : ~Offending(data.upcoming[j])
    ELSE 0

\* The checks of the structure before the field loop all pass.
ShapeOk(data) ==
  data.isObject /\ data.hasUpcoming /\ data.hasPast /\ data.hasSettings

\* The result is the failure of the first check that fails, in the order
\* object, upcoming, past, settings, fields of the first offending show.
FirstFailure(data, r) ==
  /\ (r.error = "Data is not an object") <=> ~data.isObject
  /\ (r.error = "Missing or invalid upcoming array")
       <=> (data.isObject /\ ~data.hasUpcoming)
  /\ (r.error = "Missing or invalid past array")
       <=> (data.isObject /\ data.hasUpcoming /\ ~data.hasPast)
  /\ (r.error = "Missing or invalid settings object")
       <=> (data.isObject /\ data.hasUpcoming /\ data.hasPast
              /\ ~data.hasSettings)
  /\ r.valid <=> (ShapeOk(data) /\ FirstOffending(data) = 0)
  /\ (ShapeOk(data) /\ FirstOffending(data) # 0
        /\ IsObjectEntry(data.upcoming[FirstOffending(data)])) =>
       /\ r.error = "Upcoming show missing field"
       /\ r.index = FirstOffending(data)
       /\ \E k \in DOMAIN RequiredFields :
            /\ r.field = RequiredFields[k]
            /\ r.field \notin data.upcoming[r.index].fields
            /\ \A j \in 1..(k - 1) :
                 RequiredFields[j] \in data.upcoming[r.index].fields

\* C23. validateShowsStructure returns, for every decoded value, the
\* failure of the first check that fails (for missing fields: the first
\* offending show and its first missing field), and never throws.
ValidationInOrder ==
  validation.asked =>
    /\ ~validation.result.threw
    /\ FirstFailure(validation.data, validation.result)

\* The part of C23 that does not concern exceptions.
ValidationOrderOnly ==
  validation.asked => FirstFailure(validation.data, validation.result)

\* The site's file is JSON and fails validateShowsStructure.
FailsValidation(s) ==
  /\ startTarget[s].kind = "json"
  /\ ~validateShowsStructure(startTarget[s].data).valid

\* C24. A document that fails validateShowsStructure is never partitioned
\* or written, in any mode: no result is computed for the site, main never
\* reaches its second archiveShows call or writeShowsFile for it, its
\* target, .tmp and .backup stay as they were, and its iteration ends in
\* the error outcome while the run goes on to the end over every site.
InvalidIsNeverPartitioned ==
  \A s \in SiteIds :
    FailsValidation(s) =>
      /\ result[s] = NoResult
      /\ archiveCalls[s] <= 1
      /\ siteIdx = s => pc \in {"idle", "exists", "backup", "prereport",
                                "done", "exited"}
      /\ target[s] = startTarget[s]
      /\ tmp[s] = Absent
      /\ bak[s] = Absent
      /\ reports[s] = {}
      /\ outcome[s] \in {"none", "error"}
      /\ pc = "exited" =>
           /\ outcome[s] = "error"
           /\ visited = <<1, 2>>

\* An --execute run ended: the second site's file lacked a field and ended
\* in error after one archiveShows call, the first site's file was replaced.
InvalidIsNeverPartitionedWitness ==
  /\ pc = "exited"
  /\ mode = "--execute"
  /\ FailsValidation(2)
  /\ archiveCalls[2] = 1
  /\ HasBackup(2)
  /\ outcome = <<"applied", "error">>
  /\ target[1] # startTarget[1]

\* The run is an --execute run and the site's document, as the run found
\* it, has no show to archive.
NothingToArchive(s) ==
  /\ mode = "--execute"
  /\ pc # "idle"
  /\ IsDoc(startTarget[s])
  /\ archiveShows(startTarget[s], now, tz).toArchive = <<>>

\* C25. With toArchive empty an --execute run performs no write:
\* writeShowsFile is not entered for the site, no step changes its target,
\* .tmp or .backup, and the iteration ends with the outcome of no changes,
\* or in error only when a file-system call of main failed.
EmptyArchiveWritesNothing ==
  /\ [](\A s \in SiteIds :
          NothingToArchive(s) =>
            /\ siteIdx = s => pc \in MainPcs
            /\ target[s] = startTarget[s]
            /\ result[s] # NoResult => result[s].archived = 0
            /\ outcome[s] \in {"none", "nochange", "error"}
            /\ "execute" \in reports[s] => outcome[s] = "nochange")
  /\ [][ \A s \in SiteIds :
           (NothingToArchive(s) /\ mode' = mode
              /\ startTarget' = startTarget) =>
             /\ target'[s] = target[s]
             /\ tmp'[s] = tmp[s]
             /\ bak'[s] = bak[s] ]_vars

\* An --execute run over a document with one show of tomorrow has ended
\* with the outcome of no changes and its execute report.
EmptyArchiveWritesNothingWitness ==
  /\ pc = "exited"
  /\ NothingToArchive(1)
  /\ Len(startTarget[1].data.upcoming) >= 1
  /\ startTarget[1].fmt = "source"
  /\ outcome[1] = "nochange"
  /\ reports[1] = {"backup", "execute"}
  /\ target[1] = startTarget[1]
  /\ tmp[1] = Absent
  /\ bak[1] = Absent

\* The literal counts of a result.
Counts(r) ==
  <<r.originalUpcoming, r.originalPast, r.archived, r.remaining,
    r.totalPast>>

\* The entries of archivedShows without their daysAgo.
Listed(r) ==
  [i \in 1..Len(r.archivedShows) |->
     [date |-> r.archivedShows[i].date, rest |-> r.archivedShows[i].rest]]

\* The archivable shows of a document, in the order of its `upcoming`.
ArchivableOf(file) ==
  LET q == SelectSeq(file.data.upcoming, Archivable)
  IN  [i \in 1..Len(q) |-> [date |-> q[i].date, rest |-> q[i].rest]]

\* C26. The per-site result is consistent with itself and with the
\* document: archived + remaining = originalUpcoming, totalPast =
\* originalPast + archived, archivedShows lists the archived shows in the
\* order of the original `upcoming`, after a successful --execute run
\* remaining and totalPast are the lengths of the persisted `upcoming` and
\* `past`, and the call of the run's mode reports the counts the dry-run
\* call reported for the same document and reference date.
ResultIsConsistent ==
  /\ [](\A s \in SiteIds :
          result[s] # NoResult =>
            /\ result[s].originalUpcoming = Len(startTarget[s].data.upcoming)
            /\ result[s].originalPast = Len(startTarget[s].data.past)
            /\ result[s].archived + result[s].remaining
                 = result[s].originalUpcoming
            /\ result[s].totalPast
                 = result[s].originalPast + result[s].archived
            /\ Len(result[s].archivedShows) = result[s].archived
            /\ Listed(result[s]) = ArchivableOf(startTarget[s])
            /\ (AppliedCleanly(s) /\ outcome[s] = "applied") =>
                 /\ result[s].remaining = Len(target[s].data.upcoming)
                 /\ result[s].totalPast = Len(target[s].data.past))
  /\ [][ \A s \in SiteIds :
           (pc = "archive" /\ siteIdx = s /\ result'[s] # NoResult) =>
             /\ result[s] # NoResult
             /\ Counts(result'[s]) = Counts(result[s]) ]_vars

\* An --execute run has archived some shows of the first site and kept
\* others, and the persisted document has the lengths the result reports.
ResultIsConsistentWitness ==
  /\ pc = "exited"
  /\ AppliedCleanly(1)
  /\ outcome[1] = "applied"
  /\ result[1].archived >= 2
  /\ result[1].remaining >= 1
  /\ result[1].originalPast >= 1
  /\ Len(target[1].data.past) = result[1].totalPast
  /\ Len(target[1].data.upcoming) = result[1].remaining

\* The two count warnings of a result are exactly the ones its counts call
\* for: ten archived shows are not too many, eleven are.
CountWarningsExact(r) ==
  /\ ("all" \in r.warnings) <=> (r.remaining = 0 /\ r.archived >= 1)
  /\ ("many" \in r.warnings) <=> (r.archived > 10)
  /\ r.archived = 10 => "many" \notin r.warnings
  /\ r.archived = 11 => "many" \in r.warnings

\* A dry-run or execute report carries the warnings of its result.
ReportShowsWarnings(report, r) ==
  /\ report.warnings = r.warnings
  /\ r.warnings # {} => "warnings" \in report.sections

\* C27. performSanityChecks warns that all upcoming shows would be archived
\* exactly when remaining = 0 and archived >= 1, and that too many shows
\* would be archived exactly when archived > 10; the dry-run call and the
\* call of the run's mode compute the same warnings, and the dry-run and
\* execute reports show every non-empty list of warnings.
WarningsAreExact ==
  /\ [](sanity.asked =>
          /\ CountWarningsExact(sanity.result)
          /\ ReportShowsWarnings(sanity.dryrun, sanity.result)
          /\ ReportShowsWarnings(sanity.execute, sanity.result))
  /\ [](\A s \in SiteIds :
          result[s] # NoResult =>
            /\ CountWarningsExact(result[s])
            /\ ReportShowsWarnings(generateReport(result[s], ReportKind),
                                   result[s]))
  /\ [][ (pc = "archive" /\ result'[siteIdx] # NoResult) =>
           /\ result[siteIdx] # NoResult
           /\ result'[siteIdx].warnings = result[siteIdx].warnings ]_vars

\* performSanityChecks was applied to a result with eleven archived shows
\* and none remaining: both warnings are in it and in the reports.
WarningsAreExactWitness ==
  /\ sanity.asked
  /\ sanity.result.archived = 11
  /\ sanity.result.remaining = 0
  /\ sanity.result.warnings = {"all", "many"}
  /\ "warnings" \in sanity.dryrun.sections
  /\ "warnings" \in sanity.execute.sections

\* C28. Leftover files of an earlier interrupted run do not affect a later
\* run: when writeShowsFile started with a leftover .tmp or .backup and its
\* temp write or re-parse threw, then after the catch block the target has
\* the contents it had before the call.
LeftoversAreHarmless ==
  (pc = "report" /\ ~cleanStart /\ failedAt \in {"tmp", "parse"}) =>
    target[siteIdx] = preCall

\* Some show is more often in `after` than in `before`.
Gains(before, after) ==
  \E i \in DOMAIN after : Count(after, after[i]) > Count(before, after[i])

\* Some show of the earlier `past` is more often in the later `upcoming`
\* than in the earlier one.
Reappears(earlier, later) ==
  \E i \in DOMAIN earlier.past :
    Count(later.upcoming, earlier.past[i])
      > Count(earlier.upcoming, earlier.past[i])

\* writeShowsFile has renamed the new document over the site's target and
\* has thrown afterwards.
ThrewAfterRename(s) ==
  /\ s = siteIdx
  /\ failedAt = "unlink"
  /\ pc \in {"h_tmp", "h_restore", "h_restore2", "h_unlink", "report"}

\* C29. Archiving is one-way: the persisted `upcoming` holds no show more
\* often than the document the run started from, and once a run has
\* persisted its new document, no later persisted document, also of a call
\* that throws, has a show of the persisted `past` back in `upcoming` or
\* gains a show in `upcoming`.
ArchivingIsOneWay ==
  \A s \in SiteIds :
    /\ (pc # "idle" /\ IsDoc(startTarget[s]) /\ IsDoc(target[s])) =>
         ~Gains(startTarget[s].data.upcoming, target[s].data.upcoming)
    /\ (ThrewAfterRename(s) /\ IsDoc(target[s])) =>
         /\ ~Gains(newData.upcoming, target[s].data.upcoming)
         /\ ~Reappears(newData, target[s].data)

\* C30. Only the exact first argument --execute enables writing: in a run
\* with no argument, with --dry-run, with --verify or with another first
\* argument such as --exec, the dryRun passed to archiveShows is true,
\* writeShowsFile is never entered, no new document is built for writing,
\* every site's target is the file the run started from, and no site ends
\* with changes applied.
OnlyExecuteWrites ==
  (pc # "idle" /\ mode # "--execute") =>
    /\ dryRun
    /\ pc \in MainPcs
    /\ newData = NoData
    /\ \A s \in SiteIds :
         /\ target[s] = startTarget[s]
         /\ outcome[s] # "applied"

\* A run with the misspelled argument --exec has ended: it found shows to
\* archive, previewed them and left the first site's file as it was.
OnlyExecuteWritesWitness ==
  /\ pc = "exited"
  /\ mode = "--exec"
  /\ result[1] # NoResult
  /\ result[1].archived > 0
  /\ outcome[1] = "preview"
  /\ "dryrun" \in reports[1]
  /\ target[1] = startTarget[1]

=============================================================================
